---- MODULE Spec2Model ----
(***************************************************************************)
(* Locator-based binary-heap priority queues of priorityqueue.py.          *)
(*                                                                         *)
(* Two queue objects live side by side: "min" is a MinHeapPriorityQueue    *)
(* and "max" is a MaxHeapPriorityQueue.  Locator objects are named by      *)
(* identifiers 1..MaxLocs; the fields of every Locator ever created        *)
(* (_value, _item, _index) are kept whether or not the Locator is still    *)
(* stored in a queue, because the caller may keep the handle and pass it   *)
(* to remove/update of either queue at any time.                           *)
(*                                                                         *)
(* Array indices are 0-based as in the source; the backing list _pq is a   *)
(* TLA+ sequence, read through At(m, i) == m.pq[i + 1].                     *)
(*                                                                         *)
(* Specifications: Spec (both queues, default key, any calls within the    *)
(* call budget), SpecOne (one queue constructed with any key, one call),   *)
(* SpecRT (round trips), SpecSky (skyline() of example.py) and SpecDual    *)
(* (the two classes run side by side on opposite priorities).              *)
(***************************************************************************)
EXTENDS Integers, Sequences, FiniteSets, TLC

\* ---- bounds of the model ----
MaxVal == 1        \* items and priorities range over 0..MaxVal
MaxBuild == 6      \* entries the two constructors create together, at most
MixedBuild == 4    \*   (at most MixedBuild when both iterables are non-empty)
SmallBuild == 2    \* constructions of at most this many entries are followed by
MaxCallsSmall == 3 \*   up to MaxCallsSmall calls,
MaxCalls == 2      \*   larger ones by up to MaxCalls calls
MaxRT == 5         \* longest input of a round trip
MaxOne == 5        \* longest input of a construction followed by a single call
MaxDual == 3       \* longest input of a mirrored run
MaxDualCalls == 3  \* calls made on each queue in a mirrored run
MaxLocs == MaxBuild + MaxCallsSmall  \* Locator objects a behaviour can create

Queues == {"min", "max"}
Ids == 1..MaxLocs
Items == 0..MaxVal
Values == 0..MaxVal
KeyFns == {"ident", "rev"}
NoItem == 0 - 1   \* "no payload" in a result record / field of an uncreated Locator
NoLoc == NoItem   \* "no Locator" in a result record

VARIABLES
    pq,      \* pq[q]: the list self._pq of queue q, a sequence of Locator ids
    key,     \* key[q]: the key function self._key of queue q
    value,   \* value[l]: Locator l's _value
    item,    \* item[l]: Locator l's _item
    index,   \* index[l]: Locator l's _index
    owner,   \* owner[l]: the queue whose constructor/append created l, or "none"
    nIn,     \* nIn[q]: items given at construction plus appends completed on q
    nOut,    \* nOut[q]: remove and pop calls on q that returned normally
    ret,     \* the last call and its outcome
    calls,   \* calls the behaviour may still make
    rt,      \* the round trip under way (SpecRT): its queue, how the input is
             \* given, the input, the items still to append and the payloads
             \* popped so far
    sky,     \* the locals of skyline() of example.py (SpecSky)
    dual     \* the mirrored run of the two classes (SpecDual)

vars == <<pq, key, value, item, index, owner, nIn, nOut, ret, calls, rt, sky, dual>>

\* ---- the buildings of example.py ----
\* INPUT of example.py; building b is INPUT[b], and building 0 is the floor
\* Building(0, 0, max(b.right for b in bs)) that skyline() adds.
INPUT ==
    << [left |-> 1, height |-> 11, right |-> 5],
       [left |-> 2, height |-> 6, right |-> 7],
       [left |-> 3, height |-> 13, right |-> 9],
       [left |-> 12, height |-> 7, right |-> 16],
       [left |-> 14, height |-> 3, right |-> 25],
       [left |-> 19, height |-> 18, right |-> 22],
       [left |-> 23, height |-> 13, right |-> 29],
       [left |-> 24, height |-> 4, right |-> 28] >>

\* OUTPUT of example.py.
OUTPUT ==
    << <<1, 11>>, <<3, 13>>, <<9, 0>>, <<12, 7>>, <<16, 3>>, <<19, 18>>, <<22, 3>>,
       <<23, 13>>, <<29, 0>> >>

Height(b) == IF b = 0 THEN 0 ELSE INPUT[b].height

\* ---- key functions (the `key` constructor argument) ----
\* "ident" is the default key=lambda x: x; "rev" is an order-reversing key
\* such as key=lambda x: MaxVal - x; "neg" is key=lambda x: -x; "height" is
\* the key=lambda x: x.height of example.py.
Key(k, x) ==
    CASE k = "ident" -> x
      [] k = "rev" -> MaxVal - x
      [] k = "neg" -> 0 - x
      [] k = "height" -> Height(x)

\* ---- index arithmetic ----
\* A parent function that steps to the neighbouring slot.
ParentLinear(j) == j - 1

Parent(j) == (j - 1) \div 2
Left(j) == 2 * j + 1
Right(j) == 2 * j + 2

\* ---- the heap memory seen by one queue object ----
\* m = [pq, value, item, index, swaps, ups]: the queue's list and the fields of
\* all Locator objects; swaps counts the calls of _swap made so far and ups
\* those of them made by the _upheap call of _fix.
At(m, i) == m.pq[i + 1]
Size(m) == Len(m.pq)

\* Locator.__lt__ and Locator.__le__ compare _value only.
Lt(m, a, b) == m.value[a] < m.value[b]
Le(m, a, b) == m.value[a] <= m.value[b]

\* _swap with the index bookkeeping left out.
SwapNoIndex(m, i, j) ==
    [m EXCEPT !.pq = [[m.pq EXCEPT ![i + 1] = m.pq[j + 1]] EXCEPT ![j + 1] = m.pq[i + 1]],
              !.swaps = m.swaps + 1]

Swap(m, i, j) ==
    LET npq == [[m.pq EXCEPT ![i + 1] = m.pq[j + 1]] EXCEPT ![j + 1] = m.pq[i + 1]]
    IN  [m EXCEPT !.pq = npq,
                  !.index = [[m.index EXCEPT ![npq[i + 1]] = i] EXCEPT ![npq[j + 1]] = j],
                  !.swaps = m.swaps + 1]

RECURSIVE MinUpheap(_, _)
MinUpheap(m, i) ==
    LET parent == Parent(i)
    IN  IF i > 0 /\ Lt(m, At(m, i), At(m, parent))
        THEN MinUpheap(Swap(m, i, parent), parent)
        ELSE m

\* _downheap that never looks at the right child.
RECURSIVE MinDownheapLeftOnly(_, _)
MinDownheapLeftOnly(m, i) ==
    LET n == Size(m)
        left == Left(i)
    IN  IF left < n /\ Lt(m, At(m, left), At(m, i))
        THEN MinDownheapLeftOnly(Swap(m, i, left), left)
        ELSE m

\* _downheap that also swaps with a child of equal priority.
RECURSIVE MinDownheapNonStrict(_, _)
MinDownheapNonStrict(m, i) ==
    LET n == Size(m)
        left == Left(i)
        right == Right(i)
        child == IF right < n /\ Lt(m, At(m, right), At(m, left)) THEN right ELSE left
    IN  IF left < n
        THEN IF Le(m, At(m, child), At(m, i))
             THEN MinDownheapNonStrict(Swap(m, i, child), child)
             ELSE m
        ELSE m

RECURSIVE MinDownheap(_, _)
MinDownheap(m, i) ==
    LET n == Size(m)
        left == Left(i)
        right == Right(i)
        child == IF right < n /\ Lt(m, At(m, right), At(m, left)) THEN right ELSE left
    IN  IF left < n
        THEN IF Lt(m, At(m, child), At(m, i))
             THEN MinDownheap(Swap(m, i, child), child)
             ELSE m
        ELSE m

\* _upheap of the max class that also swaps with a parent of equal priority.
RECURSIVE MaxUpheapNonStrict(_, _)
MaxUpheapNonStrict(m, i) ==
    LET parent == Parent(i)
    IN  IF i > 0 /\ Le(m, At(m, parent), At(m, i))
        THEN MaxUpheapNonStrict(Swap(m, i, parent), parent)
        ELSE m

RECURSIVE MaxUpheap(_, _)
MaxUpheap(m, i) ==
    LET parent == Parent(i)
    IN  IF i > 0 /\ Lt(m, At(m, parent), At(m, i))
        THEN MaxUpheap(Swap(m, i, parent), parent)
        ELSE m

\* _downheap of the max class that picks the child as the min class does.
RECURSIVE MaxDownheapSmallerChild(_, _)
MaxDownheapSmallerChild(m, i) ==
    LET n == Size(m)
        left == Left(i)
        right == Right(i)
        child == IF right < n /\ Lt(m, At(m, right), At(m, left)) THEN right ELSE left
    IN  IF left < n
        THEN IF Lt(m, At(m, i), At(m, child))
             THEN MaxDownheapSmallerChild(Swap(m, i, child), child)
             ELSE m
        ELSE m

RECURSIVE MaxDownheap(_, _)
MaxDownheap(m, i) ==
    LET n == Size(m)
        left == Left(i)
        right == Right(i)
        child == IF right < n /\ Lt(m, At(m, left), At(m, right)) THEN right ELSE left
    IN  IF left < n
        THEN IF Lt(m, At(m, i), At(m, child))
             THEN MaxDownheap(Swap(m, i, child), child)
             ELSE m
        ELSE m

\* MaxHeapPriorityQueue without its own _upheap: the inherited one runs.
UpheapNoOverride(q, m, i) == MinUpheap(m, i)

\* Method dispatch: MaxHeapPriorityQueue overrides _upheap and _downheap.
Upheap(q, m, i) == IF q = "min" THEN MinUpheap(m, i) ELSE MaxUpheap(m, i)
Downheap(q, m, i) == IF q = "min" THEN MinDownheap(m, i) ELSE MaxDownheap(m, i)

\* _fix: self._upheap(i); self._downheap(i)
Fix(q, m, i) ==
    LET u == Upheap(q, m, i)
        d == Downheap(q, u, i)
    IN  [d EXCEPT !.ups = u.swaps - m.swaps, !.downs = d.swaps - u.swaps]

\* _heapify whose loop stops before the root: range(start, 0, -1).
RECURSIVE HeapifyFromStopsAtOne(_, _, _)
HeapifyFromStopsAtOne(q, m, j) ==
    IF j < 1 THEN m ELSE HeapifyFromStopsAtOne(q, Downheap(q, m, j), j - 1)

\* _heapify: for j in range(start, -1, -1): self._downheap(j)
RECURSIVE HeapifyFrom(_, _, _)
HeapifyFrom(q, m, j) ==
    IF j < 0 THEN m ELSE HeapifyFrom(q, Downheap(q, m, j), j - 1)

Heapify(q, m) == HeapifyFrom(q, m, Parent(Size(m) - 1))


\* ---- results of a call ----
\* err is the exception the call raised ("none" when it returned normally):
\* "ValueError" is ValueError('Invalid locator'), the invalid-locator error;
\* "IndexError" is the IndexError of indexing the empty list, the error of
\* peek/pop on an empty queue.
Outcome(m, out, err) == [m |-> m, out |-> out, err |-> err]

\* ---- constructor ----
\* Locators first, first+1, ... are created for the items of the iterable.
\* decorated = [(key(item), item) ...]; Locator(value, item, i); heapify if len > 1.
RECURSIVE Decorate(_, _, _, _, _)
Decorate(m, k, items, first, i) ==
    IF i >= Len(items) THEN m
    ELSE Decorate([m EXCEPT !.pq = Append(m.pq, first + i),
                            !.value[first + i] = Key(k, items[i + 1]),
                            !.item[first + i] = items[i + 1],
                            !.index[first + i] = i],
                  k, items, first, i + 1)

New(q, m, k, items, first) ==
    LET d == Decorate(m, k, items, first, 0)
    IN  IF Size(d) > 1 THEN Heapify(q, d) ELSE d

\* ---- locator validation ----
\* Validation by range only, without the identity test.
ValidRangeOnly(m, l) == 0 <= m.index[l] /\ m.index[l] < Size(m)

\* 0 <= j < len(self) and self._pq[j] is loc, with j = loc._index
Valid(m, l) ==
    /\ 0 <= m.index[l]
    /\ m.index[l] < Size(m)
    /\ At(m, m.index[l]) = l

\* ---- public operations ----
\* append without the sift-up of the new entry.
AppendOpNoUpheap(q, m, k, x, l) ==
    Outcome([m EXCEPT !.pq = Append(m.pq, l), !.value[l] = Key(k, x),
                      !.item[l] = x, !.index[l] = Size(m)],
            NoItem, "none")

\* append that stores the item itself as the priority, whatever the key.
AppendOpNoKey(q, m, k, x, l) ==
    LET tok == [m EXCEPT !.pq = Append(m.pq, l), !.value[l] = x,
                         !.item[l] = x, !.index[l] = Size(m)]
    IN  Outcome(Upheap(q, tok, Size(tok) - 1), NoItem, "none")

\* append: l is the new Locator object.
AppendOp(q, m, k, x, l) ==
    LET tok == [m EXCEPT !.pq = Append(m.pq, l), !.value[l] = Key(k, x),
                         !.item[l] = x, !.index[l] = Size(m)]
    IN  Outcome(Upheap(q, tok, Size(tok) - 1), NoItem, "none")

\* update that overwrites the fields before validating.
UpdateOpWriteFirst(q, m, l, newval, newitem) ==
    LET j == m.index[l]
        w == [m EXCEPT !.value[l] = newval, !.item[l] = newitem]
    IN  IF ~Valid(m, l) THEN Outcome(w, NoItem, "ValueError")
        ELSE Outcome(Fix(q, w, j), NoItem, "none")

\* update that sifts down only.
UpdateOpDownOnly(q, m, l, newval, newitem) ==
    LET j == m.index[l]
    IN  IF ~Valid(m, l) THEN Outcome(m, NoItem, "ValueError")
        ELSE Outcome(Downheap(q, [m EXCEPT !.value[l] = newval, !.item[l] = newitem], j),
                     NoItem, "none")

UpdateOp(q, m, l, newval, newitem) ==
    LET j == m.index[l]
    IN  IF ~Valid(m, l) THEN Outcome(m, NoItem, "ValueError")
        ELSE Outcome(Fix(q, [m EXCEPT !.value[l] = newval, !.item[l] = newitem], j),
                     NoItem, "none")

Truncate(m) == [m EXCEPT !.pq = SubSeq(m.pq, 1, Len(m.pq) - 1)]

\* remove that does not repair the slot it filled.
RemoveOpNoFix(q, m, l) ==
    LET j == m.index[l]
    IN  IF ~Valid(m, l) THEN Outcome(m, NoItem, "ValueError")
        ELSE IF j = Size(m) - 1 THEN Outcome(Truncate(m), m.item[l], "none")
        ELSE Outcome(Truncate(Swap(m, j, Size(m) - 1)), m.item[l], "none")

\* remove that forgets to shrink the list when loc is the last entry.
RemoveOpKeepLast(q, m, l) ==
    LET j == m.index[l]
    IN  IF ~Valid(m, l) THEN Outcome(m, NoItem, "ValueError")
        ELSE IF j = Size(m) - 1 THEN Outcome(m, m.item[l], "none")
        ELSE Outcome(Fix(q, Truncate(Swap(m, j, Size(m) - 1)), j), m.item[l], "none")

\* remove without the test for the last index: the last entry is swapped with
\* itself before the list is shortened.
RemoveOpSwapsLast(q, m, l) ==
    LET j == m.index[l]
    IN  IF ~Valid(m, l) THEN Outcome(m, NoItem, "ValueError")
        ELSE IF j = Size(m) - 1 THEN Outcome(Truncate(Swap(m, j, j)), m.item[l], "none")
        ELSE Outcome(Fix(q, Truncate(Swap(m, j, Size(m) - 1)), j), m.item[l], "none")

\* remove: validate, then truncate (loc is the last entry) or swap, pop and fix.
RemoveOp(q, m, l) ==
    LET j == m.index[l]
    IN  IF ~Valid(m, l) THEN Outcome(m, NoItem, "ValueError")
        ELSE IF j = Size(m) - 1 THEN Outcome(Truncate(m), m.item[l], "none")
        ELSE Outcome(Fix(q, Truncate(Swap(m, j, Size(m) - 1)), j), m.item[l], "none")

\* peek that brings the root out by _swap(0, -1), as pop does.
PeekOpSwaps(m) ==
    IF Size(m) = 0 THEN Outcome(m, NoItem, "IndexError")
    ELSE LET s == Swap(m, 0, Size(m) - 1)
         IN  Outcome(s, s.item[At(s, Size(s) - 1)], "none")

\* peek: self._pq[0] raises IndexError on the empty list.
PeekOp(m) ==
    IF Size(m) = 0 THEN Outcome(m, NoItem, "IndexError")
    ELSE Outcome(m, m.item[At(m, 0)], "none")

\* pop that returns normally on the empty queue.
PopOpNoError(q, m) ==
    IF Size(m) = 0 THEN Outcome(m, NoItem, "none")
    ELSE LET s == Swap(m, 0, Size(m) - 1)
             loc == At(s, Size(s) - 1)
         IN  Outcome(Downheap(q, Truncate(s), 0), s.item[loc], "none")

\* pop that does not sift the new root down.
PopOpNoDownheap(q, m) ==
    IF Size(m) = 0 THEN Outcome(m, NoItem, "IndexError")
    ELSE LET s == Swap(m, 0, Size(m) - 1)
             loc == At(s, Size(s) - 1)
         IN  Outcome(Truncate(s), s.item[loc], "none")

\* pop: _swap(0, -1) on the empty list raises IndexError while reading
\* self._pq[-1], before anything is assigned.
PopOp(q, m) ==
    IF Size(m) = 0 THEN Outcome(m, NoItem, "IndexError")
    ELSE LET s == Swap(m, 0, Size(m) - 1)
             loc == At(s, Size(s) - 1)
         IN  Outcome(Downheap(q, Truncate(s), 0), s.item[loc], "none")

\* the items property: [token._item for token in self._pq]
ItemsOf(m) == [i \in 1..Len(m.pq) |-> m.item[m.pq[i]]]

\* __len__
LenOp(m) == Len(m.pq)

\* __contains__: item in self.items
ContainsOp(m, x) == \E i \in 1..Len(m.pq) : ItemsOf(m)[i] = x


\* sorted(...): insertion of x into an ascending sequence, after its equals.
RECURSIVE InsertSorted(_, _)
InsertSorted(s, x) ==
    IF s = <<>> THEN <<x>>
    ELSE IF x < Head(s) THEN <<x>> \o s
    ELSE <<Head(s)>> \o InsertSorted(Tail(s), x)

RECURSIVE Sorted(_)
Sorted(s) == IF s = <<>> THEN <<>> ELSE InsertSorted(Sorted(SubSeq(s, 1, Len(s) - 1)), s[Len(s)])

Reversed(s) == [i \in 1..Len(s) |-> s[Len(s) + 1 - i]]

\* __iter__: iter(sorted(self.items)); MaxHeapPriorityQueue sorts with reverse=True.
IterOp(q, m) == IF q = "min" THEN Sorted(ItemsOf(m)) ELSE Reversed(Sorted(ItemsOf(m)))

\* ---- the state machine ----
Mem(q) == [pq |-> pq[q], value |-> value, item |-> item, index |-> index,
           swaps |-> 0, ups |-> 0, downs |-> 0]

Created == {l \in Ids : owner[l] # "none"}
Fresh == {l \in Ids : owner[l] = "none"}
NextLoc == CHOOSE l \in Fresh : \A k \in Fresh : l <= k

\* The record of a call: op and q name the call, loc is the Locator passed to
\* it (remove, update) or returned by it (append), at the _index that Locator
\* had when the call began, newval and arg the priority and the item passed
\* (update; append and the membership test pass an item), out the payload
\* returned, found the answer of a membership test, listing the items
\* produced by iteration, n the answer of len(), swaps the _swap calls the
\* call made, ups those made by the _upheap of _fix and downs those made by
\* the _downheap of _fix.
Call(op, q, l, v, x, o) ==
    [op |-> op, q |-> q, loc |-> l, at |-> IF l = NoLoc THEN NoItem ELSE index[l],
     newval |-> v, arg |-> x, out |-> o.out, err |-> o.err, found |-> FALSE, listing |-> <<>>, n |-> 0,
     swaps |-> o.m.swaps, ups |-> o.m.ups, downs |-> o.m.downs]

Store(q, o) ==
    /\ calls' = calls - 1
    /\ pq' = [pq EXCEPT ![q] = o.m.pq]
    /\ value' = o.m.value
    /\ item' = o.m.item
    /\ index' = o.m.index

BuildInputs == UNION {[1..n -> Items] : n \in 0..MaxBuild}

Blank == [pq |-> <<>>, value |-> [l \in Ids |-> NoItem], item |-> [l \in Ids |-> NoItem],
          index |-> [l \in Ids |-> NoItem], swaps |-> 0, ups |-> 0, downs |-> 0]

NoCall ==
    [op |-> "init", q |-> "min", loc |-> NoLoc, at |-> NoItem, newval |-> NoItem,
     arg |-> NoItem, out |-> NoItem, err |-> "none",
     found |-> FALSE, listing |-> <<>>, n |-> 0, swaps |-> 0, ups |-> 0, downs |-> 0]

NoRT == [q |-> "min", mode |-> "build", input |-> <<>>, todo |-> <<>>, popped |-> <<>>]

\* No skyline() is running; no mirrored run is under way.
NoSky == [bs |-> {}, xs |-> <<>>, pc |-> "idle", res |-> <<>>, locs |-> <<>>]
NoDual == [on |-> FALSE, turn |-> "max", twin |-> <<>>, last |-> NoCall]

CallBudget(n) == IF n <= SmallBuild THEN MaxCallsSmall ELSE MaxCalls

\* Both queues are constructed, "min" first, from iterables a and b and with
\* the default key: MinHeapPriorityQueue(a), MaxHeapPriorityQueue(b).
Init ==
    \E kmin \in {"ident"}, kmax \in {"ident"}, a \in BuildInputs, b \in BuildInputs :
        /\ Len(a) + Len(b) <= MaxBuild
        /\ ~(Len(a) > 0 /\ Len(b) > 0 /\ Len(a) + Len(b) > MixedBuild)
        /\ calls = CallBudget(Len(a) + Len(b))
        /\ LET m1 == New("min", Blank, kmin, a, 1)
               m2 == New("max", [m1 EXCEPT !.pq = <<>>], kmax, b, Len(a) + 1)
           IN  /\ pq = [q \in Queues |-> IF q = "min" THEN m1.pq ELSE m2.pq]
               /\ value = m2.value
               /\ item = m2.item
               /\ index = m2.index
               /\ owner = [l \in Ids |-> IF l <= Len(a) THEN "min"
                                         ELSE IF l <= Len(a) + Len(b) THEN "max"
                                         ELSE "none"]
               /\ nIn = [q \in Queues |-> IF q = "min" THEN Len(a) ELSE Len(b)]
        /\ key = [q \in Queues |-> IF q = "min" THEN kmin ELSE kmax]
        /\ nOut = [q \in Queues |-> 0]
        /\ ret = NoCall
        /\ rt = NoRT
        /\ sky = NoSky
        /\ dual = NoDual

DoAppend(q, x) ==
    /\ calls > 0
    /\ Fresh # {}
    /\ LET l == NextLoc
           o == AppendOp(q, Mem(q), key[q], x, l)
       IN  /\ Store(q, o)
           /\ owner' = [owner EXCEPT ![l] = q]
           /\ nIn' = [nIn EXCEPT ![q] = nIn[q] + 1]
           /\ ret' = [Call("append", q, l, NoItem, x, o) EXCEPT !.at = NoItem]
    /\ UNCHANGED <<key, nOut>>

\* loc is any Locator the caller holds: live, removed, or of the other queue.
DoUpdate(q, l, newval, newitem) ==
    /\ calls > 0
    /\ l \in Created
    /\ LET o == UpdateOp(q, Mem(q), l, newval, newitem)
       IN  /\ Store(q, o)
           /\ ret' = Call("update", q, l, newval, newitem, o)
    /\ UNCHANGED <<key, owner, nIn, nOut>>

DoRemove(q, l) ==
    /\ calls > 0
    /\ l \in Created
    /\ LET o == RemoveOp(q, Mem(q), l)
       IN  /\ Store(q, o)
           /\ nOut' = [nOut EXCEPT ![q] = IF o.err = "none" THEN nOut[q] + 1 ELSE nOut[q]]
           /\ ret' = Call("remove", q, l, NoItem, NoItem, o)
    /\ UNCHANGED <<key, owner, nIn>>

DoPeek(q) ==
    /\ calls > 0
    /\ LET o == PeekOp(Mem(q))
       IN  /\ Store(q, o)
           /\ ret' = Call("peek", q, NoLoc, NoItem, NoItem, o)
    /\ UNCHANGED <<key, owner, nIn, nOut>>

DoPop(q) ==
    /\ calls > 0
    /\ LET o == PopOp(q, Mem(q))
       IN  /\ Store(q, o)
           /\ nOut' = [nOut EXCEPT ![q] = IF o.err = "none" THEN nOut[q] + 1 ELSE nOut[q]]
           /\ ret' = Call("pop", q, NoLoc, NoItem, NoItem, o)
    /\ UNCHANGED <<key, owner, nIn>>

DoLen(q) ==
    /\ calls > 0
    /\ ret' = [Call("len", q, NoLoc, NoItem, NoItem, Outcome(Mem(q), NoItem, "none")) EXCEPT !.n = LenOp(Mem(q))]
    /\ calls' = calls - 1
    /\ UNCHANGED <<pq, key, value, item, index, owner, nIn, nOut>>

DoContains(q, x) ==
    /\ calls > 0
    /\ ret' = [Call("contains", q, NoLoc, NoItem, x, Outcome(Mem(q), NoItem, "none"))
                 EXCEPT !.found = ContainsOp(Mem(q), x)]
    /\ calls' = calls - 1
    /\ UNCHANGED <<pq, key, value, item, index, owner, nIn, nOut>>

\* The items property, read by the caller.
DoItems(q) ==
    /\ calls > 0
    /\ ret' = [Call("items", q, NoLoc, NoItem, NoItem, Outcome(Mem(q), NoItem, "none"))
                 EXCEPT !.listing = ItemsOf(Mem(q))]
    /\ calls' = calls - 1
    /\ UNCHANGED <<pq, key, value, item, index, owner, nIn, nOut>>

DoIter(q) ==
    /\ calls > 0
    /\ ret' = [Call("iter", q, NoLoc, NoItem, NoItem, Outcome(Mem(q), NoItem, "none"))
                 EXCEPT !.listing = IterOp(q, Mem(q))]
    /\ calls' = calls - 1
    /\ UNCHANGED <<pq, key, value, item, index, owner, nIn, nOut>>

CallAppend ==
    /\ calls > 0
    /\ \E q \in Queues, x \in Items :
          /\ DoAppend(q, x)
          /\ UNCHANGED <<rt, sky, dual>>
CallUpdate ==
    /\ calls > 0
    /\ \E q \in Queues, l \in Ids, v \in Values, x \in Items :
          /\ DoUpdate(q, l, v, x)
          /\ UNCHANGED <<rt, sky, dual>>
CallRemove ==
    /\ calls > 0
    /\ \E q \in Queues, l \in Ids :
          /\ DoRemove(q, l)
          /\ UNCHANGED <<rt, sky, dual>>
CallPeek ==
    /\ calls > 0
    /\ \E q \in Queues :
          /\ DoPeek(q)
          /\ UNCHANGED <<rt, sky, dual>>
CallPop ==
    /\ calls > 0
    /\ \E q \in Queues :
          /\ DoPop(q)
          /\ UNCHANGED <<rt, sky, dual>>
CallLen ==
    /\ calls > 0
    /\ \E q \in Queues :
          /\ DoLen(q)
          /\ UNCHANGED <<rt, sky, dual>>
CallContains ==
    /\ calls > 0
    /\ \E q \in Queues, x \in Items :
          /\ DoContains(q, x)
          /\ UNCHANGED <<rt, sky, dual>>
CallItems ==
    /\ calls > 0
    /\ \E q \in Queues :
          /\ DoItems(q)
          /\ UNCHANGED <<rt, sky, dual>>
CallIter ==
    /\ calls > 0
    /\ \E q \in Queues :
          /\ DoIter(q)
          /\ UNCHANGED <<rt, sky, dual>>

Next ==
    \/ CallAppend
    \/ CallUpdate
    \/ CallRemove
    \/ CallPeek
    \/ CallPop
    \/ CallLen
    \/ CallContains
    \/ CallItems
    \/ CallIter

Spec == Init /\ [][Next]_vars

\* ---- a single call on a freshly constructed queue ----
\* Queue q is constructed from any input with any key function, the other
\* queue is constructed empty, and one call of any kind follows.
OneInputs == UNION {[1..n -> Items] : n \in 0..MaxOne}

InitOne ==
    \E q \in Queues, k \in KeyFns, input \in OneInputs :
        LET m == New(q, Blank, k, input, 1)
        IN  /\ pq = [p \in Queues |-> IF p = q THEN m.pq ELSE <<>>]
            /\ key = [p \in Queues |-> k]
            /\ value = m.value
            /\ item = m.item
            /\ index = m.index
            /\ owner = [l \in Ids |-> IF l <= Len(input) THEN q ELSE "none"]
            /\ nIn = [p \in Queues |-> IF p = q THEN Len(input) ELSE 0]
            /\ nOut = [p \in Queues |-> 0]
            /\ ret = NoCall
            /\ calls = 1
            /\ rt = [q |-> q, mode |-> "build", input |-> input, todo |-> <<>>, popped |-> <<>>]
            /\ sky = NoSky
            /\ dual = NoDual

SpecOne == InitOne /\ [][Next]_vars

\* ---- round trips: construct or append n items, then pop n times ----
RTInputs == UNION {[1..n -> Items] : n \in 0..MaxRT}

\* Queue q is constructed from the input (mode "build") or constructed empty
\* and then given the input item by item (mode "append"); the other queue is
\* constructed empty.
RTInit ==
    \E q \in Queues, k \in KeyFns, input \in RTInputs, mode \in {"build", "append"} :
        LET built == IF mode = "build" THEN input ELSE <<>>
            m == New(q, Blank, k, built, 1)
        IN  /\ pq = [p \in Queues |-> IF p = q THEN m.pq ELSE <<>>]
            /\ key = [p \in Queues |-> k]
            /\ value = m.value
            /\ item = m.item
            /\ index = m.index
            /\ owner = [l \in Ids |-> IF l <= Len(built) THEN q ELSE "none"]
            /\ nIn = [p \in Queues |-> IF p = q THEN Len(built) ELSE 0]
            /\ nOut = [p \in Queues |-> 0]
            /\ ret = NoCall
            /\ calls = 2 * MaxRT
            /\ rt = [q |-> q, mode |-> mode, input |-> input,
                     todo |-> IF mode = "append" THEN input ELSE <<>>, popped |-> <<>>]
            /\ sky = NoSky
            /\ dual = NoDual

RTAppend ==
    /\ rt.todo # <<>>
    /\ DoAppend(rt.q, Head(rt.todo))
    /\ rt' = [rt EXCEPT !.todo = Tail(rt.todo)]
    /\ UNCHANGED <<sky, dual>>

RTPop ==
    /\ rt.todo = <<>>
    /\ Len(rt.popped) < Len(rt.input)
    /\ DoPop(rt.q)
    /\ rt' = [rt EXCEPT !.popped = Append(rt.popped, ret'.out)]
    /\ UNCHANGED <<sky, dual>>

RTNext == RTAppend \/ RTPop

SpecRT == RTInit /\ [][RTNext]_vars

\* ---- skyline(buildings) of example.py ----
\* The buildings given are any non-empty selection of INPUT.  The x values of
\* INPUT are all different, so xs[x] holds one building for every x and the
\* order in which the set bs is iterated does not show; each turn of the
\* loop over sorted(xs) is one append or one remove followed by one peek.
Buildings == 1..Len(INPUT)
Xs(bs) == {INPUT[b].left : b \in bs} \cup {INPUT[b].right : b \in bs}

\* sorted(xs)
RECURSIVE SortedXs(_)
SortedXs(S) ==
    IF S = {} THEN <<>>
    ELSE LET x == CHOOSE y \in S : \A z \in S : y <= z
         IN  <<x>> \o SortedXs(S \ {x})

\* pq = MaxHeapPriorityQueue(key=lambda x: x.height); locs = {}; res is set
\* to [(0, 0)] once the floor is appended.
SkyInit ==
    \E bs \in (SUBSET Buildings) \ {{}} :
        /\ pq = [q \in Queues |-> <<>>]
        /\ key = [q \in Queues |-> "height"]
        /\ value = Blank.value
        /\ item = Blank.item
        /\ index = Blank.index
        /\ owner = [l \in Ids |-> "none"]
        /\ nIn = [q \in Queues |-> 0]
        /\ nOut = [q \in Queues |-> 0]
        /\ ret = NoCall
        /\ calls = 1 + 4 * Cardinality(bs)
        /\ rt = NoRT
        /\ sky = [bs |-> bs, xs |-> SortedXs(Xs(bs)), pc |-> "floor", res |-> <<>>,
                  locs |-> [b \in {} |-> NoLoc]]
        /\ dual = NoDual

\* floor = Building(0, 0, ...); locs[floor] = pq.append(floor); res = [(0, 0)]
SkyFloor ==
    /\ sky.pc = "floor"
    /\ DoAppend("max", 0)
    /\ sky' = [sky EXCEPT !.pc = "move", !.res = << <<0, 0>> >>,
                          !.locs = [b \in {0} |-> ret'.loc]]
    /\ UNCHANGED <<rt, dual>>

\* if x == b.left: locs[b] = pq.append(b)
SkyAppend ==
    /\ sky.pc = "move"
    /\ \E b \in sky.bs :
          /\ Head(sky.xs) = INPUT[b].left
          /\ DoAppend("max", b)
          /\ sky' = [sky EXCEPT !.pc = "peek",
                                !.locs = [c \in DOMAIN sky.locs \cup {b} |->
                                             IF c = b THEN ret'.loc ELSE sky.locs[c]]]
    /\ UNCHANGED <<rt, dual>>

\* elif x == b.right: pq.remove(locs[b]); del locs[b].  An exception raised
\* by remove ends skyline().
SkyRemove ==
    /\ sky.pc = "move"
    /\ \E b \in sky.bs :
          /\ Head(sky.xs) # INPUT[b].left
          /\ Head(sky.xs) = INPUT[b].right
          /\ b \in DOMAIN sky.locs
          /\ DoRemove("max", sky.locs[b])
          /\ sky' = IF ret'.err = "none"
                    THEN [sky EXCEPT !.pc = "peek",
                                     !.locs = [c \in DOMAIN sky.locs \ {b} |-> sky.locs[c]]]
                    ELSE [sky EXCEPT !.pc = "raised"]
    /\ UNCHANGED <<rt, dual>>

\* ans = x, pq.peek().height; res.append(ans) if the height changed; then the
\* next x, or return res[1:] after the last one.
SkyPeek ==
    /\ sky.pc = "peek"
    /\ DoPeek("max")
    /\ sky' = IF ret'.err # "none" THEN [sky EXCEPT !.pc = "raised"]
              ELSE LET ans == <<Head(sky.xs), Height(ret'.out)>>
                       prev == sky.res[Len(sky.res)]
                   IN  [sky EXCEPT !.res = IF prev[2] # ans[2] THEN Append(sky.res, ans)
                                           ELSE sky.res,
                                   !.xs = Tail(sky.xs),
                                   !.pc = IF Tail(sky.xs) = <<>> THEN "done" ELSE "move"]
    /\ UNCHANGED <<rt, dual>>

SkyNext == SkyFloor \/ SkyAppend \/ SkyRemove \/ SkyPeek

SpecSky == SkyInit /\ [][SkyNext]_vars

\* ---- mirrored runs: the max class with priorities p, the min class with -p ----
\* MaxHeapPriorityQueue(input) and MinHeapPriorityQueue(input, key=lambda x: -x)
\* are constructed; then every call made on the first (turn "max") is made on
\* the second (turn "min") with the Locator created by the same call there
\* (twin) and the priority negated.  dual.last is the record of the call on
\* the max queue while ret is that of its mirror.
DualInputs == UNION {[1..n -> Items] : n \in 0..MaxDual}

DualInit ==
    \E input \in DualInputs :
        LET n == Len(input)
            m1 == New("max", Blank, "ident", input, 1)
            m2 == New("min", [m1 EXCEPT !.pq = <<>>], "neg", input, n + 1)
        IN  /\ pq = [q \in Queues |-> IF q = "max" THEN m1.pq ELSE m2.pq]
            /\ key = [q \in Queues |-> IF q = "max" THEN "ident" ELSE "neg"]
            /\ value = m2.value
            /\ item = m2.item
            /\ index = m2.index
            /\ owner = [l \in Ids |-> IF l <= n THEN "max" ELSE IF l <= 2 * n THEN "min" ELSE "none"]
            /\ nIn = [q \in Queues |-> n]
            /\ nOut = [q \in Queues |-> 0]
            /\ ret = NoCall
            /\ calls = 2 * MaxDualCalls
            /\ rt = NoRT
            /\ sky = NoSky
            /\ dual = [on |-> TRUE, turn |-> "max", twin |-> [l \in 1..n |-> l + n], last |-> NoCall]

DualTurn(q) == dual.on /\ dual.turn = q /\ calls > 0

\* The call on the max queue is done: its mirror comes next.
DualDone == dual' = [dual EXCEPT !.turn = "min", !.last = ret']

\* The mirror is done too.
DualMirrored == dual' = [dual EXCEPT !.turn = "max"]

DualAppend ==
    /\ DualTurn("max")
    /\ Cardinality(Fresh) >= 2
    /\ \E x \in Items : DoAppend("max", x)
    /\ DualDone
    /\ UNCHANGED <<rt, sky>>

DualPop ==
    /\ DualTurn("max")
    /\ DoPop("max")
    /\ DualDone
    /\ UNCHANGED <<rt, sky>>

DualRemove ==
    /\ DualTurn("max")
    /\ \E l \in DOMAIN dual.twin : DoRemove("max", l)
    /\ DualDone
    /\ UNCHANGED <<rt, sky>>

DualUpdate ==
    /\ DualTurn("max")
    /\ \E l \in DOMAIN dual.twin, v \in Values, x \in Items : DoUpdate("max", l, v, x)
    /\ DualDone
    /\ UNCHANGED <<rt, sky>>

MirrorAppend ==
    /\ DualTurn("min")
    /\ dual.last.op = "append"
    /\ DoAppend("min", dual.last.arg)
    /\ dual' = [dual EXCEPT !.turn = "max",
                            !.twin = [l \in DOMAIN dual.twin \cup {dual.last.loc} |->
                                         IF l = dual.last.loc THEN ret'.loc ELSE dual.twin[l]]]
    /\ UNCHANGED <<rt, sky>>

MirrorPop ==
    /\ DualTurn("min")
    /\ dual.last.op = "pop"
    /\ DoPop("min")
    /\ DualMirrored
    /\ UNCHANGED <<rt, sky>>

MirrorRemove ==
    /\ DualTurn("min")
    /\ dual.last.op = "remove"
    /\ DoRemove("min", dual.twin[dual.last.loc])
    /\ DualMirrored
    /\ UNCHANGED <<rt, sky>>

MirrorUpdate ==
    /\ DualTurn("min")
    /\ dual.last.op = "update"
    /\ DoUpdate("min", dual.twin[dual.last.loc], 0 - dual.last.newval, dual.last.arg)
    /\ DualMirrored
    /\ UNCHANGED <<rt, sky>>

DualNext ==
    \/ DualAppend
    \/ DualPop
    \/ DualRemove
    \/ DualUpdate
    \/ MirrorAppend
    \/ MirrorPop
    \/ MirrorRemove
    \/ MirrorUpdate

SpecDual == DualInit /\ [][DualNext]_vars

\* ---- properties ----
\* The doctest's verify and verify_max.
VerifyMin(m) ==
    \A i \in 0..(Size(m) - 1) :
        /\ Left(i) < Size(m) => Le(m, At(m, i), At(m, Left(i)))
        /\ Right(i) < Size(m) => Le(m, At(m, i), At(m, Right(i)))

VerifyMax(m) ==
    \A i \in 0..(Size(m) - 1) :
        /\ Left(i) < Size(m) => Le(m, At(m, Left(i)), At(m, i))
        /\ Right(i) < Size(m) => Le(m, At(m, Right(i)), At(m, i))

Verify(q, m) == IF q = "min" THEN VerifyMin(m) ELSE VerifyMax(m)

Coherent(m) == \A i \in 0..(Size(m) - 1) : m.index[At(m, i)] = i

\* The Locators stored in a list.
LiveIn(list) == {list[i] : i \in 1..Len(list)}

\* One call was made in this step.
Step == calls' = calls - 1

\* The memory of queue q after the step.
MemAfter(q) == [pq |-> pq'[q], value |-> value', item |-> item', index |-> index',
                swaps |-> 0, ups |-> 0, downs |-> 0]

\* l holds a best priority of queue q: least for "min", greatest for "max".
Extremal(q, l) ==
    /\ l \in LiveIn(pq[q])
    /\ \A k \in LiveIn(pq[q]) :
           IF q = "min" THEN value[l] <= value[k] ELSE value[l] >= value[k]

\* C1: heap order holds in every reachable state: in the "min" queue every
\* entry's priority is <= that of its children at 2i+1 and 2i+2, in the "max"
\* queue >=, after construction and after every call.
C1_HeapOrder == VerifyMin(Mem("min")) /\ VerifyMax(Mem("max"))

\* A pop of the "max" queue that sifted the new root down two levels.
C1_Witness ==
    /\ ret.op = "pop" /\ ret.q = "max" /\ ret.err = "none"
    /\ ret.swaps >= 3
    /\ Len(pq["max"]) >= 4

\* C2: position coherence holds in every reachable state: the Locator stored
\* at index i of either list has _index = i.
C2_PositionCoherence == \A q \in Queues : Coherent(Mem(q))

\* An append to the "min" queue whose entry rose two levels to the root.
C2_Witness ==
    /\ ret.op = "append" /\ ret.q = "min"
    /\ ret.swaps >= 2
    /\ index[ret.loc] = 0

\* C3: remove and update called with a Locator that is not stored in the
\* queue (removed, popped, or of the other queue) raise the invalid-locator
\* error and leave both lists as they were.
C3_RejectsNonLive ==
    [][\A q \in Queues, l \in Created :
          (/\ Step
           /\ ret'.op \in {"remove", "update"}
           /\ ret'.q = q
           /\ ret'.loc = l
           /\ l \notin LiveIn(pq[q]))
          => (ret'.err = "ValueError" /\ pq' = pq)]_vars

\* A rejected Locator of this very queue whose _index is inside the live range
\* again and whose slot now holds another entry of equal priority and payload.
C3_Witness ==
    /\ ret.op \in {"remove", "update"}
    /\ ret.err = "ValueError"
    /\ owner[ret.loc] = ret.q
    /\ 0 <= index[ret.loc] /\ index[ret.loc] < Len(pq[ret.q])
    /\ LET k == pq[ret.q][index[ret.loc] + 1]
       IN  k # ret.loc /\ value[k] = value[ret.loc] /\ item[k] = item[ret.loc]

\* C4: a remove or update that raises the invalid-locator error changes
\* nothing: both lists and every Locator's priority, payload and index are as
\* before the call.
C4_FailedCallNoChange ==
    [][(Step /\ ret'.op \in {"remove", "update"} /\ ret'.err # "none")
          => (ret'.err = "ValueError" /\ UNCHANGED <<pq, value, item, index, nIn, nOut>>)]_vars

\* A rejected update, on a non-empty queue, of a Locator that is live in the
\* other queue and whose _index is inside this queue's range.
C4_Witness ==
    /\ ret.op = "update" /\ ret.err = "ValueError"
    /\ owner[ret.loc] # ret.q
    /\ ret.loc \in LiveIn(pq[owner[ret.loc]])
    /\ index[ret.loc] < Len(pq[ret.q])
    /\ ret.newval # value[ret.loc]

\* C5: peek and pop on an empty queue raise the error of the empty queue
\* (Python's IndexError) and return no payload; the queue stays empty, and an
\* append that follows succeeds and leaves one entry, the new Locator.
C5_EmptyQueueError ==
    [][Step =>
        /\ (ret'.op \in {"peek", "pop"} /\ Len(pq[ret'.q]) = 0)
              => (/\ ret'.err = "IndexError"
                  /\ ret'.out = NoItem
                  /\ UNCHANGED <<pq, value, item, index, nIn, nOut>>)
        /\ (ret'.op \in {"peek", "pop"} /\ Len(pq[ret'.q]) > 0) => ret'.err = "none"
        /\ (ret.err = "IndexError" /\ ret'.op = "append" /\ ret'.q = ret.q)
              => (ret'.err = "none" /\ pq'[ret.q] = <<ret'.loc>>)]_vars

\* A pop that failed on an empty queue, with calls still to come.
C5_Witness ==
    /\ ret.op = "pop" /\ ret.err = "IndexError"
    /\ pq[ret.q] = <<>>
    /\ calls > 0

\* C6: on a non-empty queue peek returns, and pop removes and returns, the
\* payload of an entry whose priority is least ("min") or greatest ("max")
\* among the live entries; pop removes that entry only and peek none.
C6_PeekPopExtremal ==
    [][\A q \in Queues :
          (Step /\ ret'.op \in {"peek", "pop"} /\ ret'.q = q /\ Len(pq[q]) > 0)
          => /\ ret'.err = "none"
             /\ \E l \in LiveIn(pq[q]) :
                   /\ Extremal(q, l)
                   /\ item[l] = ret'.out
                   /\ IF ret'.op = "pop"
                      THEN /\ LiveIn(pq'[q]) = LiveIn(pq[q]) \ {l}
                           /\ Len(pq'[q]) = Len(pq[q]) - 1
                      ELSE pq'[q] = pq[q]
             /\ \A o \in Queues \ {q} : pq'[o] = pq[o]]_vars

\* A pop of the "min" queue that moved entries, with an entry of the same
\* priority as the removed one among those still live.
C6_Witness ==
    /\ ret.op = "pop" /\ ret.q = "min" /\ ret.err = "none"
    /\ ret.swaps >= 2
    /\ \E k \in LiveIn(pq["min"]) : item[k] = ret.out /\ value[k] = ret.out

\* C8: remove(loc) with a live Locator returns loc's payload and removes that
\* entry only; every other live Locator is still valid, and heap order and
\* position coherence hold over the entries that remain.
C8_RemoveLive ==
    [][\A q \in Queues, l \in Created :
          (Step /\ ret'.op = "remove" /\ ret'.q = q /\ ret'.loc = l /\ l \in LiveIn(pq[q]))
          => /\ ret'.err = "none"
             /\ ret'.out = item[l]
             /\ LiveIn(pq'[q]) = LiveIn(pq[q]) \ {l}
             /\ Len(pq'[q]) = Len(pq[q]) - 1
             /\ \A k \in LiveIn(pq[q]) \ {l} :
                   /\ Valid(MemAfter(q), k)
                   /\ value'[k] = value[k] /\ item'[k] = item[k]
             /\ ~Valid(MemAfter(q), l)
             /\ Verify(q, MemAfter(q))
             /\ Coherent(MemAfter(q))]_vars

\* A remove of an inner entry after which the entry moved into its slot was
\* sifted up.
C8_Witness ==
    /\ ret.op = "remove" /\ ret.err = "none"
    /\ ret.ups >= 1
    /\ ret.at > 0 /\ ret.at < Len(pq[ret.q])

\* C9: update(loc, newval, newitem) with a live Locator sets loc's priority
\* and payload, keeps loc live with its _index its true position, leaves the
\* size and every other entry's priority and payload unchanged, and leaves
\* the queue in heap order.
C9_UpdateLive ==
    [][\A q \in Queues, l \in Created :
          (Step /\ ret'.op = "update" /\ ret'.q = q /\ ret'.loc = l /\ l \in LiveIn(pq[q]))
          => /\ ret'.err = "none"
             /\ value'[l] = ret'.newval
             /\ item'[l] = ret'.arg
             /\ Valid(MemAfter(q), l)
             /\ LiveIn(pq'[q]) = LiveIn(pq[q])
             /\ Len(pq'[q]) = Len(pq[q])
             /\ \A k \in Created \ {l} : value'[k] = value[k] /\ item'[k] = item[k]
             /\ Verify(q, MemAfter(q))
             /\ Coherent(MemAfter(q))]_vars

\* An update of the "min" queue that lowered a priority and sifted the entry
\* up two levels.
C9_Witness ==
    /\ ret.op = "update" /\ ret.q = "min" /\ ret.err = "none"
    /\ ret.ups >= 2
    /\ value[ret.loc] = ret.newval /\ item[ret.loc] = ret.arg

\* C10: the size of each queue is the number of items given to its
\* constructor plus the appends, minus the remove and pop calls that returned
\* normally; len() answers that number.
C10_SizeConsistency ==
    /\ \A q \in Queues : LenOp(Mem(q)) = nIn[q] - nOut[q]
    /\ ret.op = "len" => ret.n = nIn[ret.q] - nOut[ret.q]

\* len() answered on a non-empty queue that has lost an entry.
C10_Witness ==
    /\ ret.op = "len"
    /\ nOut[ret.q] >= 1
    /\ ret.n >= 1
    /\ \E l \in Created : owner[l] = ret.q /\ l \notin LiveIn(pq[ret.q])


Count(s, x) == Cardinality({i \in 1..Len(s) : s[i] = x})

\* C7: round trip: after n items were given to the constructor or appended
\* one by one and pop was called n times, the payloads popped are a
\* permutation of the input, their priorities key(item) are non-decreasing
\* ("min") or non-increasing ("max"), and the queue is empty.
C7_RoundTrip ==
    (rt.todo = <<>> /\ Len(rt.popped) = Len(rt.input))
    => /\ pq[rt.q] = <<>>
       /\ \A x \in Items \cup {NoItem} : Count(rt.popped, x) = Count(rt.input, x)
       /\ \A i \in 1..(Len(rt.popped) - 1) :
             IF rt.q = "min"
             THEN Key(key[rt.q], rt.popped[i]) <= Key(key[rt.q], rt.popped[i + 1])
             ELSE Key(key[rt.q], rt.popped[i]) >= Key(key[rt.q], rt.popped[i + 1])

\* A finished round trip of the "max" queue under the reversing key, with at
\* least four items appended one by one, not in the order they were popped.
C7_Witness ==
    /\ rt.todo = <<>>
    /\ Len(rt.input) >= 4
    /\ Len(rt.popped) = Len(rt.input)
    /\ rt.q = "max" /\ key["max"] = "rev"
    /\ rt.mode = "append"
    /\ rt.popped # rt.input
    /\ ret.op = "pop" /\ ret.err = "none"

\* The live entries of queue q that come no later than priority v in
\* priority order: value <= v for "min", value >= v for "max".
NoLater(q, v) ==
    {l \in LiveIn(pq[q]) : IF q = "min" THEN value[l] <= v ELSE value[l] >= v}

\* C11: iteration yields the payloads of the live entries, each as often as
\* it is live, arranged so that their priorities are non-decreasing ("min")
\* or non-increasing ("max"): for every live priority v, the first
\* |NoLater(q, v)| payloads yielded are the payloads of NoLater(q, v).
C11_IterByPriority ==
    ret.op = "iter" =>
        LET q == ret.q
            live == LiveIn(pq[q])
        IN  /\ Len(ret.listing) = Cardinality(live)
            /\ \A v \in {value[l] : l \in live} : \A x \in {item[l] : l \in live} :
                   Count(SubSeq(ret.listing, 1, Cardinality(NoLater(q, v))), x)
                       = Cardinality({l \in NoLater(q, v) : item[l] = x})

\* The payloads that pop returns when queue q, in memory m, is popped until
\* it is empty.
RECURSIVE Drain(_, _)
Drain(q, m) ==
    IF Size(m) = 0 THEN <<>>
    ELSE LET o == PopOp(q, m) IN <<o.out>> \o Drain(q, o.m)

\* C12: peek, len(), the membership test, the items property and iteration
\* change nothing: both lists and every Locator's priority, payload and index
\* are as before the call, and popping either queue until it is empty returns
\* the payloads it would have returned before the call.
C12_ReadsChangeNothing ==
    [][(Step /\ ret'.op \in {"peek", "len", "contains", "items", "iter"})
          => /\ UNCHANGED <<pq, key, value, item, index, owner, nIn, nOut>>
             /\ \A q \in Queues : Drain(q, MemAfter(q)) = Drain(q, Mem(q))]_vars

\* A peek that returned the root's payload from a queue of at least three
\* entries in which an entry has been updated.
C12_Witness ==
    /\ ret.op = "peek" /\ ret.err = "none"
    /\ Len(pq[ret.q]) >= 3
    /\ ret.out = item[pq[ret.q][1]]
    /\ \E l \in LiveIn(pq[ret.q]) : value[l] # item[l]

\* C13: append(item) creates one new Locator and returns it: its priority is
\* key(item) and its payload item; on return its _index is the position where
\* the entry came to rest, the list holding this very Locator there; the list
\* has grown by one and holds the Locators it held before and the new one.
C13_AppendReturnsLocator ==
    [][\A q \in Queues :
          (Step /\ ret'.op = "append" /\ ret'.q = q)
          => LET l == ret'.loc
             IN  /\ ret'.err = "none"
                 /\ owner[l] = "none" /\ owner'[l] = q
                 /\ value'[l] = Key(key[q], ret'.arg)
                 /\ item'[l] = ret'.arg
                 /\ 0 <= index'[l] /\ index'[l] < Len(pq'[q])
                 /\ pq'[q][index'[l] + 1] = l
                 /\ Len(pq'[q]) = Len(pq[q]) + 1
                 /\ LiveIn(pq'[q]) = LiveIn(pq[q]) \cup {l}]_vars

\* An append under the reversing key whose entry rose one level and came to
\* rest at an inner position, neither the root nor the end of the list.
C13_Witness ==
    /\ ret.op = "append" /\ ret.err = "none"
    /\ key[ret.q] = "rev"
    /\ ret.swaps = 1
    /\ index[ret.loc] > 0 /\ index[ret.loc] < Len(pq[ret.q]) - 1
    /\ pq[ret.q][index[ret.loc] + 1] = ret.loc
    /\ value[ret.loc] = MaxVal - item[ret.loc]

\* C14: the constructor, given any finite sequence of items and any key
\* function, leaves a queue of as many entries as items, one Locator each,
\* whose payloads are the items given (each as often as it was given), whose
\* priorities are key(item), and which is in heap order with every _index the
\* Locator's position; so it is for no item and for one item, where _heapify
\* is not called.  The other queue, constructed from nothing, is empty.
C14_Construction ==
    ret.op = "init" =>
        LET q == rt.q
            m == Mem(q)
        IN  /\ LenOp(m) = Len(rt.input)
            /\ Cardinality(LiveIn(pq[q])) = Len(rt.input)
            /\ \A x \in Items : Count(ItemsOf(m), x) = Count(rt.input, x)
            /\ \A l \in LiveIn(pq[q]) : value[l] = Key(key[q], item[l])
            /\ Verify(q, m)
            /\ Coherent(m)
            /\ \A o \in Queues \ {q} : pq[o] = <<>>

\* A "max" queue just constructed under the reversing key from as many items
\* as the bound allows, which _heapify had to rearrange from the root down.
C14_Witness ==
    /\ ret.op = "init"
    /\ rt.q = "max" /\ key["max"] = "rev"
    /\ Len(rt.input) = MaxOne
    /\ ItemsOf(Mem("max")) # rt.input
    /\ item[pq["max"][1]] # rt.input[1]

\* C15: skyline(INPUT) returns exactly OUTPUT, and every remove that
\* skyline() issues, for INPUT and for every selection of its buildings, is
\* given a Locator that is stored in the queue at that moment: no remove is
\* rejected and no peek fails.
C15_Skyline ==
    /\ (sky.pc = "done" /\ sky.bs = Buildings) => Tail(sky.res) = OUTPUT
    /\ ret.op = "remove" => (ret.err = "none" /\ ret.at >= 0)
    /\ sky.pc # "raised"

\* skyline(INPUT) has returned, after a last peek that found the floor, and
\* its result has the nine points of OUTPUT.
C15_Witness ==
    /\ sky.pc = "done"
    /\ sky.bs = Buildings
    /\ Len(Tail(sky.res)) = Len(OUTPUT)
    /\ ret.op = "peek" /\ ret.out = 0
    /\ nOut["max"] = Len(INPUT)

\* C16: in the _fix that a remove or an update runs at slot j, _upheap(j) and
\* _downheap(j) never both swap: when _upheap(j) swapped at least once,
\* _downheap(j) swaps nothing; and after both the queue is in heap order.
C16_FixOneDirection ==
    (ret.op \in {"remove", "update"} /\ ret.err = "none")
    => /\ ret.ups >= 1 => ret.downs = 0
       /\ Verify(ret.q, Mem(ret.q))

\* A remove from the "max" queue whose _fix sifted the entry moved into the
\* slot up and then, in _downheap, swapped nothing.
C16_Witness ==
    /\ ret.op = "remove" /\ ret.q = "max" /\ ret.err = "none"
    /\ ret.ups >= 1 /\ ret.downs = 0
    /\ ret.swaps = ret.ups + 1
    /\ ret.at < Len(pq["max"])

\* C17: in a mirrored run, after construction and after every call made on
\* both queues, the two lists hold twin Locators at the same positions, so
\* the same payloads in the same layout; twin Locators have the same _index,
\* the same payload and opposite priorities, whether stored or removed; and
\* the call and its mirror returned the same payload or raised the same
\* error, after the same number of swaps.
C17_MirrorImage ==
    (dual.on /\ dual.turn = "max")
    => /\ ItemsOf(Mem("max")) = ItemsOf(Mem("min"))
       /\ Len(pq["max"]) = Len(pq["min"])
       /\ \A i \in 1..Len(pq["max"]) : dual.twin[pq["max"][i]] = pq["min"][i]
       /\ \A l \in DOMAIN dual.twin :
             /\ index[dual.twin[l]] = index[l]
             /\ item[dual.twin[l]] = item[l]
             /\ value[dual.twin[l]] = 0 - value[l]
       /\ ret.op = dual.last.op
       /\ ret.out = dual.last.out
       /\ ret.err = dual.last.err
       /\ ret.swaps = dual.last.swaps

\* A mirrored remove that swapped at least twice in each queue and left at
\* least two entries, with a positive priority among the max queue's Locators.
C17_Witness ==
    /\ dual.on /\ dual.turn = "max"
    /\ ret.op = "remove" /\ ret.q = "min" /\ ret.err = "none"
    /\ dual.last.q = "max" /\ dual.last.swaps >= 2
    /\ ret.swaps >= 2
    /\ Len(pq["min"]) >= 2
    /\ \E l \in DOMAIN dual.twin : value[l] > 0

\* The positions from j up to the root: j, parent(j), ..., 0.
RECURSIVE PathUp(_)
PathUp(j) == IF j <= 0 THEN {0} ELSE {j} \cup PathUp(Parent(j))

\* Priority v is strictly better than w in queue q.
Better(q, v, w) == IF q = "min" THEN v < w ELSE v > w

\* C18: _upheap is strict.  append puts the new entry at index n and swaps it
\* with its parent only while its priority is strictly better: every entry it
\* passed is strictly worse, the parent it stopped under is not, and it made
\* as many swaps as positions it passed.  So a new entry whose priority
\* equals that of the entry at parent(n) stays at index n, nothing is
\* swapped, and no Locator's _index changes.
C18_StrictSiftUp ==
    [][\A q \in Queues :
          (Step /\ ret'.op = "append" /\ ret'.q = q)
          => LET n == Len(pq[q])
                 l == ret'.loc
                 v == Key(key[q], ret'.arg)
                 passed == {p \in PathUp(n) : p > index'[l]}
             IN  /\ index'[l] \in PathUp(n)
                 /\ ret'.swaps = Cardinality(passed)
                 /\ \A p \in passed : Better(q, v, value[pq'[q][p + 1]])
                 /\ index'[l] > 0 => ~Better(q, v, value[pq'[q][Parent(index'[l]) + 1]])
                 /\ (n > 0 /\ v = value[pq[q][Parent(n) + 1]])
                       => /\ index'[l] = n
                          /\ ret'.swaps = 0
                          /\ pq'[q] = Append(pq[q], l)
                          /\ \A k \in Created : index'[k] = index[k]]_vars

\* An append to a "max" queue of at least three entries whose new entry has
\* the priority of its parent, which is not the root, and stayed at the end.
C18_Witness ==
    /\ ret.op = "append" /\ ret.q = "max"
    /\ ret.swaps = 0
    /\ index[ret.loc] = Len(pq["max"]) - 1
    /\ index[ret.loc] >= 3
    /\ value[ret.loc] = value[pq["max"][Parent(index[ret.loc]) + 1]]

\* C19: remove(loc) of the entry at the last index returns its payload and
\* only shortens the list by that entry: no swap is made, the entries before
\* it keep their order, and no Locator's priority, payload or _index changes.
C19_RemoveLastTruncates ==
    [][\A q \in Queues, l \in Created :
          (/\ Step
           /\ ret'.op = "remove" /\ ret'.q = q /\ ret'.loc = l
           /\ l \in LiveIn(pq[q])
           /\ index[l] = Len(pq[q]) - 1)
          => /\ ret'.err = "none"
             /\ ret'.out = item[l]
             /\ ret'.swaps = 0
             /\ pq'[q] = SubSeq(pq[q], 1, Len(pq[q]) - 1)
             /\ UNCHANGED <<value, item, index>>]_vars

\* A remove of the last entry of a queue built under the reversing key, which
\* left at least three entries, one of them of strictly worse priority than
\* the entry removed.
C19_Witness ==
    /\ ret.op = "remove" /\ ret.err = "none"
    /\ key[ret.q] = "rev"
    /\ ret.at = Len(pq[ret.q])
    /\ Len(pq[ret.q]) >= 3
    /\ ret.swaps = 0
    /\ \E k \in LiveIn(pq[ret.q]) : Better(ret.q, value[ret.loc], value[k])

\* floor(log2(n)) for n >= 1: the height of a heap of n entries.
RECURSIVE FloorLog2(_)
FloorLog2(n) == IF n <= 1 THEN 0 ELSE 1 + FloorLog2(n \div 2)

\* A step that is one append, pop, remove or update.
Mutation == Step /\ ret'.op \in {"append", "pop", "remove", "update"}

\* The greater of the sizes of queue q before and after the step.
SizeAround(q) == IF Len(pq'[q]) > Len(pq[q]) THEN Len(pq'[q]) ELSE Len(pq[q])

\* C20 as stated: an append, pop, remove or update on a queue of n >= 1
\* entries swaps at most floor(log2(n)) times.  n is read in the claim's
\* favour, as the greater of the sizes before and after the call, and the
\* _swap(0, -1) of a pop of the only entry, which exchanges the entry with
\* itself, is not counted.
C20_SwapsWithinHeight ==
    [][(Mutation /\ SizeAround(ret'.q) >= 1)
          => LET self == IF ret'.op = "pop" /\ Len(pq[ret'.q]) = 1 THEN 1 ELSE 0
             IN  ret'.swaps - self <= FloorLog2(SizeAround(ret'.q))]_vars

\* C20, amended: every append, pop, remove and update completes, and calls
\* _swap at most floor(log2(n)) + 1 times, n >= 1 being the greater of the
\* sizes of the queue before and after the call: at most floor(log2(n)) swaps
\* are made by sifting, which is all that append and update do, and pop and
\* remove exchange the entry with the last one once before they sift.  A
\* call on an empty queue that stays empty swaps nothing.
C20_SwapsWithinHeightPlusOne ==
    [][Mutation =>
          LET q == ret'.q
              n == SizeAround(q)
          IN  /\ ret'.err \in {"none", "ValueError", "IndexError"}
              /\ n = 0 => ret'.swaps = 0
              /\ n >= 1 => ret'.swaps <= FloorLog2(n) + 1
              /\ (n >= 1 /\ ret'.op \in {"append", "update"}) => ret'.swaps <= FloorLog2(n)
              /\ ret'.err # "none" => ret'.swaps = 0]_vars

\* A pop of a "min" queue of five entries that swapped three times: once with
\* the last entry and twice sifting down, one more than floor(log2(5)).
C20_Witness ==
    /\ ret.op = "pop" /\ ret.q = "min" /\ ret.err = "none"
    /\ Len(pq["min"]) = 4
    /\ ret.swaps = FloorLog2(5) + 1

====
